---- MODULE Spec2Model ----
(***************************************************************************)
(* The jigsaw puzzle of src/script.js as a state machine.                  *)
(*                                                                         *)
(* The program keeps its puzzle state in the document: a piece is a DOM    *)
(* element, its location is its parent element (the tray or a slot of the  *)
(* board), and identity and "correct slot" are dataset attributes.  The    *)
(* model keeps exactly that: the children list of the tray and of every    *)
(* slot, the 'filled' class of the slots, the dataset attributes, and the  *)
(* text of the status node.  Styles, canvases and audio are left out.      *)
(***************************************************************************)
EXTENDS Integers, Sequences, FiniteSets, TLC

----------------------------------------------------------------------------
(* Program constants, src/script.js:1-4 and :170 *)

BOARD_DIMENSION == 300
MIN_BOARD_SIZE == 2
MAX_BOARD_SIZE == 7
TARGET_PIXELS_PER_PIECE == 35000

\* The boost factor 1.15 of line 170, as the fraction 23/20.
BOOST_NUM == 23
BOOST_DEN == 20

----------------------------------------------------------------------------
(* Bounds of the model *)

\* Drag data that names no piece: the ids NPieces+1 .. NPieces+ExtraIds, and
\* 0 for a drag that carries no piece id at all.
ExtraIds == 1

\* ReinitSpec starts at most MaxRuns runs of initPuzzle after the first one.
MaxRuns == 2

\* ReinitSpec starts a drag only while fewer than MaxOnBoard pieces are on
\* the board.
MaxOnBoard == 1

\* SizingSpec draws the image width from 1..MaxWidth.
MaxWidth == 1500

\* Math.round is evaluated over the candidates 0..MaxRound; the images of
\* SizingImages and Images all round below it.
MaxRound == 9

\* The images SizingSpec sizes: every width up to MaxWidth at a few heights,
\* which takes the rounded side through 0, 1, 2, ... and past MAX_BOARD_SIZE.
SizingHeights == {1, 7, 100, 1000}
SizingImages == {<<w, h>> : w \in 1..MaxWidth, h \in SizingHeights}

\* The image the puzzle itself is run on (image.png is fixed before the page
\* loads): 100 x 100 pixels, which gives a 2 x 2 board.
Images == {<<100, 100>>}

\* The images BuildSpec builds a puzzle from: they give every board size
\* from MIN_BOARD_SIZE to MAX_BOARD_SIZE, and some have a zero dimension.
BuildWidths == {0, 100, 300, 500, 700, 900, 1100, 1300}
BuildHeights == {0, 100, 400, 1000}
BuildImages == {<<w, h>> : w \in BuildWidths, h \in BuildHeights}

----------------------------------------------------------------------------
(* Grid sizing: computeBoardSize and clamp *)

MathMax(a, b) == IF a >= b THEN a ELSE b
MathMin(a, b) == IF a <= b THEN a ELSE b

\* clamp with min and max exchanged: Math.max(Math.min(value, min), max)
clamp_swapped(value, min, max) == MathMax(MathMin(value, min), max)

\* clamp(value, min, max), lines 560-562
clamp(value, min, max) == MathMin(MathMax(value, min), max)

\* Math.round(Math.sqrt(pixelCount / TARGET_PIXELS_PER_PIECE) * 1.15).
\* Math.round(x) for x >= 0 is the number of integers n >= 1 with
\* x >= n - 1/2.  With x = (23/20) * sqrt(p / T) that is
\* 23^2 * p >= 10^2 * T * (2n - 1)^2, in integers.  No integer p meets a
\* threshold exactly for n <= MaxRound (23 does not divide 2n - 1), and the
\* nearest p is off by a relative 1e-9 or more, far beyond the rounding
\* error of the double computation, so the integer form is the float result.
RoundBoosted(pixelCount) ==
    Cardinality({n \in 1..MaxRound :
        BOOST_NUM * BOOST_NUM * pixelCount
            >= (BOOST_DEN \div 2) * (BOOST_DEN \div 2)
               * TARGET_PIXELS_PER_PIECE * (2 * n - 1) * (2 * n - 1)})

\* JavaScript's a || b on numbers: b when a is 0 (or NaN), a otherwise.
OrElse(a, b) == IF a = 0 THEN b ELSE a

\* computeBoardSize with the lower bound of the clamp left out:
\* Math.min(approximatePiecesPerSide || MIN_BOARD_SIZE, MAX_BOARD_SIZE)
computeBoardSize_noLowerBound(image) ==
    LET pixelCount == image[1] * image[2]
        approximatePiecesPerSide == RoundBoosted(pixelCount)
    IN  MathMin(OrElse(approximatePiecesPerSide, MIN_BOARD_SIZE),
                MAX_BOARD_SIZE)

\* computeBoardSize with MAX_BOARD_SIZE as the fallback of line 175
computeBoardSize_fallbackMax(image) ==
    LET pixelCount == image[1] * image[2]
        approximatePiecesPerSide == RoundBoosted(pixelCount)
    IN  clamp(OrElse(approximatePiecesPerSide, MAX_BOARD_SIZE),
              MIN_BOARD_SIZE, MAX_BOARD_SIZE)

\* computeBoardSize(image), lines 167-177
computeBoardSize(image) ==
    LET pixelCount == image[1] * image[2]
        approximatePiecesPerSide == RoundBoosted(pixelCount)
    IN  clamp(OrElse(approximatePiecesPerSide, MIN_BOARD_SIZE),
              MIN_BOARD_SIZE, MAX_BOARD_SIZE)

----------------------------------------------------------------------------
(* State *)

VARIABLES
    pc,           \* where initPuzzle stands: "start", "loading", "ready",
                  \* "failed"; "sizing" and "sized" in SizingSpec
    sourceImage,  \* <<naturalWidth, naturalHeight>> of image.png
    boardSize,    \* the boardSize computed at line 27 (0 before that)
    puzzleState,  \* "null" or "installed" (lines 7 and 35)
    pieceId,      \* dataset.pieceId of the k-th element of puzzleState.pieces
    slotId,       \* dataset.slotId of the k-th element of puzzleState.slots
    correctSlot,  \* dataset.correctSlot of the k-th piece
    texture,      \* style.backgroundImage of the k-th piece: the slice
                  \* <<row, col>> of the scene it shows, or NoTexture
    placedSlot,   \* dataset.placedSlot of the k-th piece: a slot id,
                  \* EmptyString, or Unset
    kids,         \* children of the tray (index Tray) and of the k-th slot
                  \* (index k), in document order
    filled,       \* the slots that carry the class 'filled'
    status,       \* statusNode.textContent
    checks,       \* how often checkCompletion ran in the last entry point
    generation,   \* how many times puzzleState has been assigned an object
    pending,      \* the runs of initPuzzle that await their image
    dragData,     \* dataTransfer's text/plain of the drag in progress
    dragGeneration, \* the generation in which that drag started
    lastOp        \* the last entry point that ran: its kind, the piece the
                  \* drag id named (NoElement when it named none), the slot
                  \* that piece was dropped on, what that slot held and where
                  \* the piece was before the call, and the value returned

vars == <<pc, sourceImage, boardSize, puzzleState, pieceId, slotId,
          correctSlot, texture, placedSlot, kids, filled, status, checks,
          generation, pending, dragData, dragGeneration, lastOp>>

\* The variables only a further run of initPuzzle or a drag in progress
\* changes
reinitVars == <<generation, pending, dragData, dragGeneration>>

Tray == 0           \* the container index of #puzzle-pieces-tray
NoElement == 0      \* null / undefined, where an element is looked up
NoParent == -1      \* parentElement of a detached element
EmptyString == 0    \* dataset.placedSlot = ''
Unset == -1         \* dataset.placedSlot never assigned
NoTexture == <<>>   \* a piece that has no background image yet

\* The document state the handlers read and write, as one value.
Doc == [pieceId |-> pieceId, slotId |-> slotId, correctSlot |-> correctSlot,
        texture |-> texture, placedSlot |-> placedSlot, kids |-> kids,
        filled |-> filled, status |-> status, checks |-> checks]

\* The document as an entry point finds it: no checkCompletion has run yet.
Entry == [Doc EXCEPT !.checks = 0]

PiecesOf(d) == DOMAIN d.pieceId    \* indices into puzzleState.pieces
SlotsOf(d) == DOMAIN d.slotId      \* indices into puzzleState.slots

Pieces == PiecesOf(Doc)
Slots == SlotsOf(Doc)

----------------------------------------------------------------------------
(* DOM primitives *)

SeqToSet(s) == {s[i] : i \in DOMAIN s}

SeqWithout(s, e) == SelectSeq(s, LAMBDA x : x # e)

\* piece.parentElement
ParentOf(d, piece) ==
    IF \E c \in DOMAIN d.kids : piece \in SeqToSet(d.kids[c])
    THEN CHOOSE c \in DOMAIN d.kids : piece \in SeqToSet(d.kids[c])
    ELSE NoParent

\* container.appendChild(piece): the piece leaves its parent and becomes the
\* last child of the container.
AppendChild(d, container, piece) ==
    [d EXCEPT !.kids =
        [c \in DOMAIN d.kids |->
            IF c = container
            THEN Append(SeqWithout(d.kids[c], piece), piece)
            ELSE SeqWithout(d.kids[c], piece)]]

\* slot.querySelector('.puzzle-piece'): the first piece in the slot, or null
QuerySelectorPiece(d, slot) ==
    IF d.kids[slot] = <<>> THEN NoElement ELSE Head(d.kids[slot])

\* element.classList.contains('puzzle-slot'), for an element or null
IsPuzzleSlot(container) == container # NoParent /\ container # Tray

\* setStatus(message), lines 432-436: the status node is reached through
\* puzzleState, so nothing is shown while puzzleState is null.
setStatus(d, ps, message) ==
    IF ps = "installed" THEN [d EXCEPT !.status = message] ELSE d

----------------------------------------------------------------------------
(* Moving a piece: placePieceInSlot and movePieceToTray *)

\* placePieceInSlot with the class added to the target slot before it is
\* removed from the previous parent
placePieceInSlot_addBeforeRemove(d, piece, slot) ==
    LET previousParent == ParentOf(d, piece)
        d1 == [d EXCEPT !.filled = @ \cup {slot}]
        d2 == IF IsPuzzleSlot(previousParent)
              THEN [d1 EXCEPT !.filled = @ \ {previousParent}]
              ELSE d1
        d3 == AppendChild(d2, slot, piece)
    IN  [d3 EXCEPT !.placedSlot[piece] = d.slotId[slot]]

\* placePieceInSlot with line 350 writing dataset.correctSlot instead of
\* dataset.placedSlot
placePieceInSlot_writesCorrectSlot(d, piece, slot) ==
    LET previousParent == ParentOf(d, piece)
        d1 == IF IsPuzzleSlot(previousParent)
              THEN [d EXCEPT !.filled = @ \ {previousParent}]
              ELSE d
        d2 == AppendChild(d1, slot, piece)
        d3 == [d2 EXCEPT !.filled = @ \cup {slot}]
    IN  [d3 EXCEPT !.correctSlot[piece] = d.slotId[slot]]

\* placePieceInSlot(piece, slot), lines 341-351
placePieceInSlot(d, piece, slot) ==
    LET previousParent == ParentOf(d, piece)
        d1 == IF IsPuzzleSlot(previousParent)
              THEN [d EXCEPT !.filled = @ \ {previousParent}]
              ELSE d
        d2 == AppendChild(d1, slot, piece)
        d3 == [d2 EXCEPT !.filled = @ \cup {slot}]
    IN  [d3 EXCEPT !.placedSlot[piece] = d.slotId[slot]]

\* movePieceToTray with tray.replaceChildren(piece) for tray.appendChild(piece):
\* the other pieces of the tray are detached
movePieceToTray_replaceChildren(d, ps, piece) ==
    IF ps = "null" THEN d
    ELSE LET parentSlot == ParentOf(d, piece)
             d1 == IF IsPuzzleSlot(parentSlot)
                   THEN [d EXCEPT !.filled = @ \ {parentSlot}]
                   ELSE d
             d2 == [d1 EXCEPT !.kids =
                      [c \in DOMAIN d1.kids |->
                          IF c = Tray THEN <<piece>>
                          ELSE SeqWithout(d1.kids[c], piece)]]
         IN  [d2 EXCEPT !.placedSlot[piece] = EmptyString]

\* movePieceToTray without the piece.dataset.placedSlot = '' of line 363
movePieceToTray_keepsPlacedSlot(d, ps, piece) ==
    IF ps = "null" THEN d
    ELSE LET parentSlot == ParentOf(d, piece)
             d1 == IF IsPuzzleSlot(parentSlot)
                   THEN [d EXCEPT !.filled = @ \ {parentSlot}]
                   ELSE d
         IN  AppendChild(d1, Tray, piece)

\* movePieceToTray without the classList.remove of lines 358-360
movePieceToTray_keepsFilled(d, ps, piece) ==
    IF ps = "null" THEN d
    ELSE LET d2 == AppendChild(d, Tray, piece)
         IN  [d2 EXCEPT !.placedSlot[piece] = EmptyString]

\* movePieceToTray(piece), lines 353-364
movePieceToTray(d, ps, piece) ==
    IF ps = "null" THEN d
    ELSE LET parentSlot == ParentOf(d, piece)
             d1 == IF IsPuzzleSlot(parentSlot)
                   THEN [d EXCEPT !.filled = @ \ {parentSlot}]
                   ELSE d
             d2 == AppendChild(d1, Tray, piece)
         IN  [d2 EXCEPT !.placedSlot[piece] = EmptyString]

----------------------------------------------------------------------------
(* Completion: checkCompletion *)

\* allFilled with slots.some for slots.every
allFilled_some(d) == \E slot \in SlotsOf(d) : QuerySelectorPiece(d, slot) # NoElement

\* allFilled, line 418
allFilled(d) == \A slot \in SlotsOf(d) : QuerySelectorPiece(d, slot) # NoElement

\* allCorrect, lines 419-422
allCorrect(d) ==
    \A slot \in SlotsOf(d) :
        LET piece == QuerySelectorPiece(d, slot)
        IN  piece # NoElement /\ d.correctSlot[piece] = d.slotId[slot]

\* The branch checkCompletion takes, lines 424-429
CompletionBranch(d) ==
    IF allCorrect(d) /\ allFilled(d) THEN "completed"
    ELSE IF allFilled(d) THEN "swap"
    ELSE "none"

\* checkCompletion with the two tests of lines 424-429 in the other order:
\* allFilled first, then allCorrect && allFilled
checkCompletion_filledFirst(d, ps) ==
    LET called == [d EXCEPT !.checks = @ + 1] IN
    IF ps = "null" THEN called
    ELSE IF allFilled(d)
         THEN setStatus(called, ps, "So close! Some pieces need to be swapped.")
    ELSE IF allCorrect(d) /\ allFilled(d)
         THEN setStatus(called, ps, "Puzzle completed! Great work!")
    ELSE called

\* checkCompletion(), lines 413-430
checkCompletion(d, ps) ==
    LET called == [d EXCEPT !.checks = @ + 1] IN
    IF ps = "null" THEN called
    ELSE IF CompletionBranch(d) = "completed"
         THEN setStatus(called, ps, "Puzzle completed! Great work!")
    ELSE IF CompletionBranch(d) = "swap"
         THEN setStatus(called, ps, "So close! Some pieces need to be swapped.")
    ELSE called

----------------------------------------------------------------------------
(* The drop handlers *)

\* puzzleState.pieces.find(p => p.dataset.pieceId === pieceId), lines 311, 331
FindPiece(d, dragId) ==
    IF \E k \in PiecesOf(d) : d.pieceId[k] = dragId
    THEN CHOOSE k \in PiecesOf(d) :
            /\ d.pieceId[k] = dragId
            /\ \A j \in PiecesOf(d) : d.pieceId[j] = dragId => k <= j
    ELSE NoElement

\* handleDropOnSlot without lines 316-319: the occupant is not moved away
handleDropOnSlot_noEvict(d, ps, slot, dragId) ==
    IF ps = "null" THEN [doc |-> d, ret |-> "undefined"]
    ELSE LET piece == FindPiece(d, dragId) IN
         IF piece = NoElement THEN [doc |-> d, ret |-> "undefined"]
         ELSE LET d2 == placePieceInSlot(d, piece, slot)
                  d3 == setStatus(d2, ps, "Piece placed on the board.")
              IN  [doc |-> checkCompletion(d3, ps), ret |-> "undefined"]

\* handleDropOnSlot exchanging the two pieces: the occupant goes to the slot
\* the dropped piece comes from, and to the tray only when it comes from there
handleDropOnSlot_swap(d, ps, slot, dragId) ==
    IF ps = "null" THEN [doc |-> d, ret |-> "undefined"]
    ELSE LET piece == FindPiece(d, dragId) IN
         IF piece = NoElement THEN [doc |-> d, ret |-> "undefined"]
         ELSE LET occupyingPiece == QuerySelectorPiece(d, slot)
                  previousParent == ParentOf(d, piece)
                  d1 == IF occupyingPiece # NoElement /\ occupyingPiece # piece
                        THEN IF IsPuzzleSlot(previousParent)
                             THEN placePieceInSlot(d, occupyingPiece,
                                                   previousParent)
                             ELSE movePieceToTray(d, ps, occupyingPiece)
                        ELSE d
                  d2 == placePieceInSlot(d1, piece, slot)
                  d3 == setStatus(d2, ps, "Piece placed on the board.")
              IN  [doc |-> checkCompletion(d3, ps), ret |-> "undefined"]

\* handleDropOnSlot with lines 316-319 ahead of the lookup of lines 311-314:
\* the occupant is moved away before the drag id is checked
handleDropOnSlot_evictFirst(d, ps, slot, dragId) ==
    IF ps = "null" THEN [doc |-> d, ret |-> "undefined"]
    ELSE LET piece == FindPiece(d, dragId)
             occupyingPiece == QuerySelectorPiece(d, slot)
             d1 == IF occupyingPiece # NoElement /\ occupyingPiece # piece
                   THEN movePieceToTray(d, ps, occupyingPiece)
                   ELSE d
         IN  IF piece = NoElement THEN [doc |-> d1, ret |-> "undefined"]
             ELSE LET d2 == placePieceInSlot(d1, piece, slot)
                      d3 == setStatus(d2, ps, "Piece placed on the board.")
                  IN  [doc |-> checkCompletion(d3, ps), ret |-> "undefined"]

\* handleDropOnSlot that returns when the slot holds another piece, in place
\* of the eviction of lines 316-319
handleDropOnSlot_rejectOccupied(d, ps, slot, dragId) ==
    IF ps = "null" THEN [doc |-> d, ret |-> "undefined"]
    ELSE LET piece == FindPiece(d, dragId) IN
         IF piece = NoElement THEN [doc |-> d, ret |-> "undefined"]
         ELSE LET occupyingPiece == QuerySelectorPiece(d, slot) IN
              IF occupyingPiece # NoElement /\ occupyingPiece # piece
              THEN [doc |-> d, ret |-> "undefined"]
              ELSE LET d2 == placePieceInSlot(d, piece, slot)
                       d3 == setStatus(d2, ps, "Piece placed on the board.")
                   IN  [doc |-> checkCompletion(d3, ps), ret |-> "undefined"]

\* handleDropOnSlot(event), lines 303-326, with event.currentTarget = slot and
\* the drag data dragId.  The result is the document and the value returned.
handleDropOnSlot(d, ps, slot, dragId) ==
    IF ps = "null" THEN [doc |-> d, ret |-> "undefined"]
    ELSE LET piece == FindPiece(d, dragId) IN
         IF piece = NoElement THEN [doc |-> d, ret |-> "undefined"]
         ELSE LET occupyingPiece == QuerySelectorPiece(d, slot)
                  d1 == IF occupyingPiece # NoElement /\ occupyingPiece # piece
                        THEN movePieceToTray(d, ps, occupyingPiece)
                        ELSE d
                  d2 == placePieceInSlot(d1, piece, slot)
                  d3 == setStatus(d2, ps, "Piece placed on the board.")
              IN  [doc |-> checkCompletion(d3, ps), ret |-> "undefined"]

\* The documents placePieceInSlot passes through, one after each statement
\* of lines 342-350
placePieceInSlotSteps(d, piece, slot) ==
    LET previousParent == ParentOf(d, piece)
        d1 == IF IsPuzzleSlot(previousParent)
              THEN [d EXCEPT !.filled = @ \ {previousParent}]
              ELSE d
        d2 == AppendChild(d1, slot, piece)
        d3 == [d2 EXCEPT !.filled = @ \cup {slot}]
        d4 == [d3 EXCEPT !.placedSlot[piece] = d.slotId[slot]]
    IN  <<d1, d2, d3, d4>>

\* The documents movePieceToTray passes through, one after each statement
\* of lines 357-363
movePieceToTraySteps(d, ps, piece) ==
    IF ps = "null" THEN <<>>
    ELSE LET parentSlot == ParentOf(d, piece)
             d1 == IF IsPuzzleSlot(parentSlot)
                   THEN [d EXCEPT !.filled = @ \ {parentSlot}]
                   ELSE d
             d2 == AppendChild(d1, Tray, piece)
             d3 == [d2 EXCEPT !.placedSlot[piece] = EmptyString]
         IN  <<d1, d2, d3>>

\* The last document of a run of steps that started from d
LastOf(d, steps) == IF steps = <<>> THEN d ELSE steps[Len(steps)]

\* handleDropOnSlot with lines 316-319 and line 321 exchanged: the piece is
\* placed before the occupant is moved to the tray
handleDropOnSlotSteps_placeFirst(d, ps, slot, dragId) ==
    IF ps = "null" THEN <<d>>
    ELSE LET piece == FindPiece(d, dragId) IN
         IF piece = NoElement THEN <<d>>
         ELSE LET occupyingPiece == QuerySelectorPiece(d, slot)
                  placing == placePieceInSlotSteps(d, piece, slot)
                  d1 == LastOf(d, placing)
                  evicting ==
                      IF occupyingPiece # NoElement /\ occupyingPiece # piece
                      THEN movePieceToTraySteps(d1, ps, occupyingPiece)
                      ELSE <<>>
                  d2 == LastOf(d1, evicting)
                  d3 == setStatus(d2, ps, "Piece placed on the board.")
              IN  <<d>> \o placing \o evicting
                      \o <<d3, checkCompletion(d3, ps)>>

\* The documents handleDropOnSlot passes through, lines 303-326: the one it
\* starts from and the one after each statement that changes the document
handleDropOnSlotSteps(d, ps, slot, dragId) ==
    IF ps = "null" THEN <<d>>
    ELSE LET piece == FindPiece(d, dragId) IN
         IF piece = NoElement THEN <<d>>
         ELSE LET occupyingPiece == QuerySelectorPiece(d, slot)
                  evicting ==
                      IF occupyingPiece # NoElement /\ occupyingPiece # piece
                      THEN movePieceToTraySteps(d, ps, occupyingPiece)
                      ELSE <<>>
                  d1 == LastOf(d, evicting)
                  placing == placePieceInSlotSteps(d1, piece, slot)
                  d2 == LastOf(d1, placing)
                  d3 == setStatus(d2, ps, "Piece placed on the board.")
              IN  <<d>> \o evicting \o placing
                      \o <<d3, checkCompletion(d3, ps)>>

\* handleDropOnTray without the checkCompletion() of line 338
handleDropOnTray_noCheck(d, ps, dragId) ==
    LET piece == IF ps = "null" THEN NoElement ELSE FindPiece(d, dragId) IN
    IF piece = NoElement THEN [doc |-> d, ret |-> "undefined"]
    ELSE LET d1 == movePieceToTray(d, ps, piece)
         IN  [doc |-> setStatus(d1, ps, "Piece returned to the tray."),
              ret |-> "undefined"]

\* handleDropOnTray(event), lines 328-339
handleDropOnTray(d, ps, dragId) ==
    LET piece == IF ps = "null" THEN NoElement ELSE FindPiece(d, dragId) IN
    IF piece = NoElement THEN [doc |-> d, ret |-> "undefined"]
    ELSE LET d1 == movePieceToTray(d, ps, piece)
             d2 == setStatus(d1, ps, "Piece returned to the tray.")
         IN  [doc |-> checkCompletion(d2, ps), ret |-> "undefined"]

----------------------------------------------------------------------------
(* shufflePieces *)

\* The first loop of shufflePieces, lines 391-397, over the slots from the
\* k-th on: the first piece of each slot goes to the tray and the slot loses
\* its 'filled' class.
RECURSIVE EvictFrom(_, _, _)
EvictFrom(d, ps, k) ==
    IF k > Len(d.slotId) THEN d
    ELSE LET occupant == QuerySelectorPiece(d, k)
             d1 == IF occupant # NoElement
                   THEN movePieceToTray(d, ps, occupant)
                   ELSE d
         IN  EvictFrom([d1 EXCEPT !.filled = @ \ {k}], ps, k + 1)

\* [shuffled[i], shuffled[j]] = [shuffled[j], shuffled[i]], 0-based i and j
SwapAt(shuffled, i, j) ==
    [shuffled EXCEPT ![i + 1] = shuffled[j + 1], ![j + 1] = shuffled[i + 1]]

\* The draws of a shuffle that takes j = Math.floor(Math.random() * length)
\* at every i: any index of the array
RandomDraws_anyIndex(len) == [1..(len - 1) -> 0..(len - 1)]

\* The values Math.floor(Math.random() * (i + 1)) can take for
\* i = len - 1 down to 1: one j in 0..i for every i.
RandomDraws(len) ==
    {rnd \in [1..(len - 1) -> 0..(len - 1)] : \A i \in 1..(len - 1) : rnd[i] <= i}

\* The Fisher-Yates loop, lines 400-403, from index i down to 1, with the
\* draws rnd.
RECURSIVE FisherYates(_, _, _)
FisherYates(shuffled, rnd, i) ==
    IF i <= 0 THEN shuffled
    ELSE FisherYates(SwapAt(shuffled, i, rnd[i]), rnd, i - 1)

\* shuffled.forEach(piece => tray.appendChild(piece)), lines 404-407, from
\* the k-th element of shuffled on
RECURSIVE AppendAllFrom(_, _, _)
AppendAllFrom(d, shuffled, k) ==
    IF k > Len(shuffled) THEN d
    ELSE AppendAllFrom(AppendChild(d, Tray, shuffled[k]), shuffled, k + 1)

\* shufflePieces that shuffles the children of the tray only, with no first
\* loop: const shuffled = [...puzzleState.tray.children]
shufflePieces_trayOnly(d, ps, rnd) ==
    IF ps = "null" THEN d
    ELSE LET pieces == d.kids[Tray]
             shuffled == FisherYates(pieces, rnd, Len(pieces) - 1)
             d2 == AppendAllFrom(d, shuffled, 1)
         IN  setStatus(d2, ps, "Pieces shuffled. Start solving!")

\* shufflePieces(), lines 387-411, with the random draws rnd
shufflePieces(d, ps, rnd) ==
    IF ps = "null" THEN d
    ELSE LET d1 == EvictFrom(d, ps, 1)
             pieces == [k \in 1..Len(d.pieceId) |-> k]
             shuffled == FisherYates(pieces, rnd, Len(pieces) - 1)
             d2 == AppendAllFrom(d1, shuffled, 1)
         IN  setStatus(d2, ps, "Pieces shuffled. Start solving!")

----------------------------------------------------------------------------
(* Building the puzzle: rebuildBoard, rebuildTray, hydratePieces *)

\* rebuildBoard with the loop bound i <= totalSlots: one slot too many
rebuildBoard_offByOne(n) == [k \in 1..(n * n + 1) |-> (k - 1) + 1]

\* rebuildBoard(board, boardSize), lines 218-233: the dataset.slotId of the
\* slots created, String(i + 1) for i = 0 .. boardSize^2 - 1
rebuildBoard(n) == [k \in 1..(n * n) |-> (k - 1) + 1]

\* rebuildTray(tray, totalPieces), lines 235-246: the dataset.pieceId of the
\* pieces created
rebuildTray(totalPieces) == [k \in 1..totalPieces |-> (k - 1) + 1]

\* hydratePieces(textures), lines 248-261: dataset.correctSlot = index + 1
hydratePieces(pieces) == [k \in DOMAIN pieces |-> (k - 1) + 1]

\* sliceScene with the two loops exchanged: col outside, row inside
sliceScene_columnMajor(n) ==
    [k \in 1..(n * n) |-> <<(k - 1) % n, (k - 1) \div n>>]

\* The slices one row of sliceScene pushes, lines 196-213: col = 0 .. n - 1
SliceRow(row, n) == [c \in 1..n |-> <<row, c - 1>>]

\* The rows from row on, lines 195-214, in the order they are pushed
RECURSIVE SliceRowsFrom(_, _)
SliceRowsFrom(row, n) ==
    IF row >= n THEN <<>> ELSE SliceRow(row, n) \o SliceRowsFrom(row + 1, n)

\* sliceScene(sceneCanvas, boardSize, pieceSize), lines 193-216: the slices
\* in the order of the array returned, each named by its <<row, col>>
sliceScene(n) == SliceRowsFrom(0, n)

\* hydratePieces(textures), lines 252-254: the k-th piece shows textures[k]
hydrateTextures(pieces, textures) == [k \in DOMAIN pieces |-> textures[k]]

\* The document right after lines 32-55: a board of empty slots, every piece
\* in the tray in creation order, no class and no placedSlot set.
BuiltDoc(n, st) ==
    LET slots == rebuildBoard(n)
        pieces == rebuildTray(n * n)
    IN  [pieceId |-> pieces,
         slotId |-> slots,
         correctSlot |-> hydratePieces(pieces),
         texture |-> hydrateTextures(pieces, sliceScene(n)),
         placedSlot |-> [k \in DOMAIN pieces |-> Unset],
         kids |-> [c \in {Tray} \cup DOMAIN slots |->
                      IF c = Tray THEN [k \in DOMAIN pieces |-> k] ELSE <<>>],
         filled |-> {},
         status |-> st,
         checks |-> 0]

----------------------------------------------------------------------------
(* The state machine *)

NoOp == [kind |-> "none", piece |-> NoElement, slot |-> NoElement,
         occupyingPiece |-> NoElement, previousParent |-> NoParent,
         ret |-> "undefined"]

\* What a drag can carry: the id of a piece, an id no piece has, or 0 for a
\* drag that carries no piece id.
DragIds == 0..(Len(pieceId) + ExtraIds)

\* The document variables take the values of the document d.
Install(d) ==
    /\ pieceId' = d.pieceId
    /\ slotId' = d.slotId
    /\ correctSlot' = d.correctSlot
    /\ texture' = d.texture
    /\ placedSlot' = d.placedSlot
    /\ kids' = d.kids
    /\ filled' = d.filled
    /\ status' = d.status
    /\ checks' = d.checks

\* The page before window.onload: no puzzle state, an empty tray and board.
InitDoc ==
    /\ boardSize = 0
    /\ puzzleState = "null"
    /\ pieceId = <<>>
    /\ slotId = <<>>
    /\ correctSlot = <<>>
    /\ texture = <<>>
    /\ placedSlot = <<>>
    /\ kids = [c \in {Tray} |-> <<>>]
    /\ filled = {}
    /\ status = ""
    /\ checks = 0
    /\ generation = 0
    /\ pending = 0
    /\ dragData = EmptyString
    /\ dragGeneration = 0
    /\ lastOp = NoOp

Init ==
    /\ pc = "start"
    /\ sourceImage \in Images
    /\ InitDoc

\* initPuzzle with the assignment of puzzleState (lines 35-46) moved before
\* the await of line 26
WindowOnload_stateBeforeImage ==
    /\ pc = "start"
    /\ pc' = "loading"
    /\ puzzleState' = "installed"
    /\ Install(setStatus(Entry, "installed", "Loading image.png..."))
    /\ lastOp' = [NoOp EXCEPT !.kind = "initPuzzle"]
    /\ UNCHANGED <<sourceImage, boardSize>>
    /\ UNCHANGED reinitVars

\* window.onload, lines 9-11, and initPuzzle up to its await, lines 13-26
WindowOnload ==
    /\ pc = "start"
    /\ pc' = "loading"
    /\ Install(setStatus(Entry, puzzleState, "Loading image.png..."))
    /\ lastOp' = [NoOp EXCEPT !.kind = "initPuzzle"]
    /\ UNCHANGED <<sourceImage, boardSize, puzzleState>>
    /\ UNCHANGED reinitVars

\* image.onload, line 161, and the rest of initPuzzle's try block, lines 27-61
ImageOnload ==
    /\ pc = "loading"
    /\ pc' = "ready"
    /\ \E rnd \in RandomDraws(computeBoardSize(sourceImage)
                              * computeBoardSize(sourceImage)) :
          LET n == computeBoardSize(sourceImage)
              built == BuiltDoc(n, status)
              shuffledDoc == shufflePieces(built, "installed", rnd)
          IN  /\ boardSize' = n
              /\ puzzleState' = "installed"
              /\ Install(setStatus(shuffledDoc, "installed",
                    "Image loaded from image.png. Drag pieces to solve!"))
    /\ lastOp' = [NoOp EXCEPT !.kind = "imageLoaded"]
    /\ UNCHANGED sourceImage
    /\ generation' = generation + 1
    /\ UNCHANGED <<pending, dragData, dragGeneration>>

\* image.onerror, line 162, and initPuzzle's catch block, lines 62-65
ImageOnerror ==
    /\ pc = "loading"
    /\ pc' = "failed"
    /\ Install(setStatus(Entry, puzzleState,
          "Unable to load image.png. Please ensure the file is present."))
    /\ lastOp' = [NoOp EXCEPT !.kind = "imageFailed"]
    /\ UNCHANGED <<sourceImage, boardSize, puzzleState>>
    /\ UNCHANGED reinitVars

\* A drop of the drag data dragId on a slot of the board (placePiece): the
\* listener of line 277
DropOnSlotOf(slot, dragId) ==
    /\ pc = "ready"
    /\ LET r == handleDropOnSlot(Entry, puzzleState, slot, dragId)
       IN  /\ Install(r.doc)
           /\ lastOp' =
                 LET piece == FindPiece(Doc, dragId) IN
                 IF piece = NoElement
                 THEN [NoOp EXCEPT !.kind = "dropOnSlot", !.ret = r.ret]
                 ELSE [kind |-> "dropOnSlot",
                       piece |-> piece,
                       slot |-> slot,
                       occupyingPiece |-> QuerySelectorPiece(Doc, slot),
                       previousParent |-> ParentOf(Doc, piece),
                       ret |-> r.ret]
    /\ UNCHANGED <<pc, sourceImage, boardSize, puzzleState>>

DropOnSlot ==
    /\ \E slot \in Slots, dragId \in DragIds : DropOnSlotOf(slot, dragId)
    /\ UNCHANGED reinitVars

\* A drop of the drag data dragId on the tray (returnToHolding): the listener
\* of line 281
DropOnTrayOf(dragId) ==
    /\ pc = "ready"
    /\ LET r == handleDropOnTray(Entry, puzzleState, dragId)
       IN  /\ Install(r.doc)
           /\ lastOp' =
                 LET piece == FindPiece(Doc, dragId) IN
                 IF piece = NoElement
                 THEN [NoOp EXCEPT !.kind = "dropOnTray", !.ret = r.ret]
                 ELSE [NoOp EXCEPT !.kind = "dropOnTray",
                                   !.piece = piece,
                                   !.previousParent = ParentOf(Doc, piece),
                                   !.ret = r.ret]
    /\ UNCHANGED <<pc, sourceImage, boardSize, puzzleState>>

DropOnTray ==
    /\ \E dragId \in DragIds : DropOnTrayOf(dragId)
    /\ UNCHANGED reinitVars

\* shufflePieces() called again on the loaded puzzle, with the draws rnd
ShuffleWith(rnd) ==
    /\ pc = "ready"
    /\ Install(shufflePieces(Entry, puzzleState, rnd))
    /\ lastOp' = [NoOp EXCEPT !.kind = "shuffle"]
    /\ UNCHANGED <<pc, sourceImage, boardSize, puzzleState>>
    /\ UNCHANGED reinitVars

Shuffle == \E rnd \in RandomDraws(Len(pieceId)) : ShuffleWith(rnd)

Next ==
    \/ WindowOnload
    \/ ImageOnload
    \/ ImageOnerror
    \/ DropOnSlot
    \/ DropOnTray
    \/ Shuffle

Spec == Init /\ [][Next]_vars

----------------------------------------------------------------------------
(* The page when initPuzzle is called again on the loaded puzzle, with drags
   that last: a drag starts on a piece (handleDragStart), other events
   happen, and the drop comes later. *)

\* initPuzzle() called again, lines 13-26: it writes the loading message and
\* awaits its image; the runs awaiting may overlap
InitPuzzleAgain ==
    /\ pc = "ready"
    /\ generation + pending <= MaxRuns
    /\ pending' = pending + 1
    /\ Install(setStatus(Entry, puzzleState, "Loading image.png..."))
    /\ lastOp' = [NoOp EXCEPT !.kind = "initPuzzle"]
    /\ UNCHANGED <<pc, sourceImage, boardSize, puzzleState, generation,
                   dragData, dragGeneration>>

\* image.onload of an awaiting run, and the rest of its try block, lines
\* 27-61: board and tray are emptied and rebuilt, puzzleState is replaced
ImageOnloadAgain ==
    /\ pc = "ready"
    /\ pending > 0
    /\ pending' = pending - 1
    /\ \E rnd \in RandomDraws(computeBoardSize(sourceImage)
                              * computeBoardSize(sourceImage)) :
          LET n == computeBoardSize(sourceImage)
              built == BuiltDoc(n, status)
              shuffledDoc == shufflePieces(built, "installed", rnd)
          IN  /\ boardSize' = n
              /\ puzzleState' = "installed"
              /\ Install(setStatus(shuffledDoc, "installed",
                    "Image loaded from image.png. Drag pieces to solve!"))
    /\ generation' = generation + 1
    /\ lastOp' = [NoOp EXCEPT !.kind = "imageLoaded"]
    /\ UNCHANGED <<pc, sourceImage, dragData, dragGeneration>>

\* image.onerror of an awaiting run, and its catch block, lines 62-65: the
\* model installed stays
ImageOnerrorAgain ==
    /\ pc = "ready"
    /\ pending > 0
    /\ pending' = pending - 1
    /\ Install(setStatus(Entry, puzzleState,
          "Unable to load image.png. Please ensure the file is present."))
    /\ lastOp' = [NoOp EXCEPT !.kind = "imageFailed"]
    /\ UNCHANGED <<pc, sourceImage, boardSize, puzzleState, generation,
                   dragData, dragGeneration>>

\* handleDragStart, lines 284-289, on a piece of the document: the drag
\* carries the piece's dataset.pieceId
DragStart ==
    /\ pc = "ready"
    /\ dragData = EmptyString
    /\ Len(kids[Tray]) > Len(pieceId) - MaxOnBoard
    /\ \E piece \in Pieces : dragData' = pieceId[piece]
    /\ dragGeneration' = generation
    /\ lastOp' = [NoOp EXCEPT !.kind = "dragstart"]
    /\ UNCHANGED <<pc, sourceImage, boardSize, puzzleState, pieceId, slotId,
                   correctSlot, texture, placedSlot, kids, filled, status,
                   checks, generation, pending>>

\* The drag in progress is dropped on a slot: the listener of line 277
DropDragOnSlot ==
    /\ dragData # EmptyString
    /\ \E slot \in Slots : DropOnSlotOf(slot, dragData)
    /\ dragData' = EmptyString
    /\ UNCHANGED <<generation, pending, dragGeneration>>

\* The drag in progress is dropped on the tray: the listener of line 281
DropDragOnTray ==
    /\ dragData # EmptyString
    /\ DropOnTrayOf(dragData)
    /\ dragData' = EmptyString
    /\ UNCHANGED <<generation, pending, dragGeneration>>

ReinitNext ==
    \/ WindowOnload
    \/ ImageOnload
    \/ ImageOnerror
    \/ InitPuzzleAgain
    \/ ImageOnloadAgain
    \/ ImageOnerrorAgain
    \/ DragStart
    \/ DropDragOnSlot
    \/ DropDragOnTray

ReinitSpec == Init /\ [][ReinitNext]_vars

----------------------------------------------------------------------------
(* Grid sizing on its own: the image is decoded, then line 27 runs *)

SizingInit ==
    /\ pc = "sizing"
    /\ sourceImage \in SizingImages
    /\ InitDoc

ComputeSize ==
    /\ pc = "sizing"
    /\ pc' = "sized"
    /\ boardSize' = computeBoardSize(sourceImage)
    /\ lastOp' = [NoOp EXCEPT !.kind = "computeBoardSize"]
    /\ UNCHANGED <<sourceImage, puzzleState, pieceId, slotId, correctSlot,
                   texture, placedSlot, kids, filled, status, checks>>
    /\ UNCHANGED reinitVars

SizingNext == ComputeSize

SizingSpec == SizingInit /\ [][SizingNext]_vars

----------------------------------------------------------------------------
(* The construction of the puzzle, statement by statement: initPuzzle from
   the return of loadPuzzleImage (line 26) to the call of shufflePieces
   (line 57), for boards of every size. pc names the line to run next. *)

BuildInit ==
    /\ pc = "line27"
    /\ sourceImage \in BuildImages
    /\ InitDoc

\* lines 27-28: boardSize = computeBoardSize(sourceImage)
BuildSize ==
    /\ pc = "line27"
    /\ pc' = "line32"
    /\ boardSize' = computeBoardSize(sourceImage)
    /\ lastOp' = [NoOp EXCEPT !.kind = "computeBoardSize"]
    /\ UNCHANGED <<sourceImage, puzzleState, pieceId, slotId, correctSlot,
                   texture, placedSlot, kids, filled, status, checks>>
    /\ UNCHANGED reinitVars

\* lines 32-33: rebuildBoard(board, boardSize, pieceSize) and
\* rebuildTray(tray, totalPieces, pieceSize)
BuildContainers ==
    /\ pc = "line32"
    /\ pc' = "line35"
    /\ LET slots == rebuildBoard(boardSize)
           pieces == rebuildTray(boardSize * boardSize)
       IN  /\ slotId' = slots
           /\ pieceId' = pieces
           /\ correctSlot' = [k \in DOMAIN pieces |-> Unset]
           /\ texture' = [k \in DOMAIN pieces |-> NoTexture]
           /\ placedSlot' = [k \in DOMAIN pieces |-> Unset]
           /\ kids' = [c \in {Tray} \cup DOMAIN slots |->
                         IF c = Tray THEN [k \in DOMAIN pieces |-> k]
                         ELSE <<>>]
    /\ lastOp' = [NoOp EXCEPT !.kind = "rebuild"]
    /\ UNCHANGED <<sourceImage, boardSize, puzzleState, filled, status,
                   checks>>
    /\ UNCHANGED reinitVars

\* lines 35-46: puzzleState = { ... }
BuildState ==
    /\ pc = "line35"
    /\ pc' = "line54"
    /\ puzzleState' = "installed"
    /\ lastOp' = [NoOp EXCEPT !.kind = "puzzleState"]
    /\ UNCHANGED <<sourceImage, boardSize, pieceId, slotId, correctSlot,
                   texture, placedSlot, kids, filled, status, checks>>
    /\ UNCHANGED reinitVars

\* lines 54-55: hydratePieces(sliceScene(sceneCanvas, boardSize, pieceSize))
BuildPieces ==
    /\ pc = "line54"
    /\ pc' = "line57"
    /\ correctSlot' = hydratePieces(pieceId)
    /\ texture' = hydrateTextures(pieceId, sliceScene(boardSize))
    /\ lastOp' = [NoOp EXCEPT !.kind = "hydratePieces"]
    /\ UNCHANGED <<sourceImage, boardSize, puzzleState, pieceId, slotId,
                   placedSlot, kids, filled, status, checks>>
    /\ UNCHANGED reinitVars

BuildNext == BuildSize \/ BuildContainers \/ BuildState \/ BuildPieces

BuildSpec == BuildInit /\ [][BuildNext]_vars

----------------------------------------------------------------------------
(* Vocabulary of the properties *)

\* The places a piece occupies: the pairs <<container, position>> at which it
\* is a child.
PlacesOf(d, piece) ==
    {cp \in UNION {{<<c, i>> : i \in DOMAIN d.kids[c]} : c \in DOMAIN d.kids} :
        d.kids[cp[1]][cp[2]] = piece}

\* The pieces in Holding and the pieces in some cell
InHolding(d) == SeqToSet(d.kids[Tray])
InCells(d) == UNION {SeqToSet(d.kids[slot]) : slot \in SlotsOf(d)}

\* Every piece is at exactly one place, no cell holds two pieces, and Holding
\* and the cells together hold exactly the pieces of the model.
Bijection(d) ==
    /\ \A piece \in PiecesOf(d) : Cardinality(PlacesOf(d, piece)) = 1
    /\ \A slot \in SlotsOf(d) : Len(d.kids[slot]) <= 1
    /\ InHolding(d) \cup InCells(d) = PiecesOf(d)
    /\ InHolding(d) \cap InCells(d) = {}

Rejected(op) == op.kind \in {"dropOnSlot", "dropOnTray"} /\ op.piece = NoElement
Placed(op) == op.kind = "dropOnSlot" /\ op.piece # NoElement
Returned(op) == op.kind = "dropOnTray" /\ op.piece # NoElement

----------------------------------------------------------------------------
(* C1: on a loaded puzzle, after any sequence of drops on slots, drops on   *)
(* the tray and shuffles, every one of the N*N pieces is in exactly one     *)
(* location, no cell holds more than one piece, and the pieces in Holding   *)
(* together with the pieces in cells are exactly all pieces.                *)
C1_BijectionInvariant ==
    pc = "ready" =>
        /\ Cardinality(Pieces) = boardSize * boardSize
        /\ Cardinality(Slots) = boardSize * boardSize
        /\ Bijection(Doc)

\* A piece has been dropped on an occupied cell from another cell, and the
\* board still holds two pieces.
C1_Witness ==
    /\ pc = "ready"
    /\ Placed(lastOp)
    /\ lastOp.occupyingPiece \notin {NoElement, lastOp.piece}
    /\ IsPuzzleSlot(lastOp.previousParent)
    /\ Cardinality(InCells(Doc)) >= 2

----------------------------------------------------------------------------
(* C2: when cell c holds piece A and another piece B, from Holding or from  *)
(* another cell, is dropped on c, the call ends with A in Holding and B in  *)
(* c, and no piece is lost or duplicated.                                   *)
C2_Displacement ==
    (Placed(lastOp) /\ lastOp.occupyingPiece \notin {NoElement, lastOp.piece}) =>
        /\ kids[lastOp.slot] = <<lastOp.piece>>
        /\ lastOp.occupyingPiece \in InHolding(Doc)
        /\ lastOp.occupyingPiece \notin InCells(Doc)
        /\ Bijection(Doc)

\* B came from another cell and displaced A.
C2_Witness ==
    /\ Placed(lastOp)
    /\ lastOp.occupyingPiece \notin {NoElement, lastOp.piece}
    /\ IsPuzzleSlot(lastOp.previousParent)
    /\ lastOp.previousParent # lastOp.slot
    /\ kids[lastOp.slot] = <<lastOp.piece>>
    /\ lastOp.occupyingPiece \in InHolding(Doc)

----------------------------------------------------------------------------
(* C3: after shufflePieces, called from any reachable state, every piece is *)
(* in Holding, every cell is unoccupied, and the piece ids in Holding are   *)
(* exactly the piece ids of the model, each once.                           *)
C3_ShuffleAllInHolding ==
    lastOp.kind \in {"shuffle", "imageLoaded"} =>
        /\ \A slot \in Slots : kids[slot] = <<>>
        /\ InHolding(Doc) = Pieces
        /\ Len(kids[Tray]) = Cardinality(Pieces)
        /\ {pieceId[kids[Tray][i]] : i \in DOMAIN kids[Tray]}
              = {pieceId[piece] : piece \in Pieces}

\* A shuffle of a puzzle whose pieces had all been moved by hand, leaving
\* them in another order than the one they were created in.
C3_Witness ==
    /\ lastOp.kind = "shuffle"
    /\ \A piece \in Pieces : placedSlot[piece] = EmptyString
    /\ kids[Tray] # [k \in 1..Len(pieceId) |-> k]

----------------------------------------------------------------------------
(* C4: the completion evaluator puts every reachable state of the loaded    *)
(* puzzle in exactly one of three classes: Solved when every cell is        *)
(* occupied and every occupant's correct slot is the cell it is in,         *)
(* FilledIncorrect when every cell is occupied and some occupant is in the  *)
(* wrong cell, InProgress when some cell is empty.                          *)

\* The classification, stated over where the pieces are.
CellOf(piece) == ParentOf(Doc, piece)
EveryCellOccupied == \A slot \in Slots : \E piece \in Pieces : CellOf(piece) = slot
Misplaced(piece) ==
    IsPuzzleSlot(CellOf(piece)) /\ correctSlot[piece] # slotId[CellOf(piece)]
Solved == EveryCellOccupied /\ ~(\E piece \in Pieces : Misplaced(piece))
FilledIncorrect == EveryCellOccupied /\ (\E piece \in Pieces : Misplaced(piece))
InProgress == \E slot \in Slots : \A piece \in Pieces : CellOf(piece) # slot

\* C4: the branch checkCompletion takes is "completed" exactly when the state
\* is Solved, "swap" exactly when it is FilledIncorrect, neither exactly when
\* it is InProgress, and exactly one of the three applies.
C4_Classification ==
    pc = "ready" =>
        /\ (CompletionBranch(Doc) = "completed") <=> Solved
        /\ (CompletionBranch(Doc) = "swap") <=> FilledIncorrect
        /\ (CompletionBranch(Doc) = "none") <=> InProgress
        /\ Cardinality({c \in {"completed", "swap", "none"} :
                            CompletionBranch(Doc) = c}) = 1

\* A filled board that differs from the solved one by the exchange of two
\* pieces, classified FilledIncorrect.
C4_Witness ==
    /\ pc = "ready"
    /\ Placed(lastOp)
    /\ EveryCellOccupied
    /\ Cardinality({piece \in Pieces : Misplaced(piece)}) = 2
    /\ CompletionBranch(Doc) = "swap"

----------------------------------------------------------------------------
(* C5: a drop on the tray of a piece that is already in Holding changes no  *)
(* piece's location and no cell's occupant.                                 *)
C5_ReturnIdempotent ==
    [][(Returned(lastOp') /\ lastOp'.previousParent = Tray) =>
          /\ \A piece \in Pieces : ParentOf(Doc', piece) = ParentOf(Doc, piece)
          /\ \A slot \in Slots : kids'[slot] = kids[slot]
          /\ InHolding(Doc') = InHolding(Doc)]_vars

\* A piece of Holding was dropped on the tray while another piece sat in a
\* cell and a third one in Holding.
C5_Witness ==
    /\ Returned(lastOp)
    /\ lastOp.previousParent = Tray
    /\ InCells(Doc) # {}
    /\ Len(kids[Tray]) >= 2

----------------------------------------------------------------------------
(* C6: a drop of piece p on the cell c it is already in evicts no piece,    *)
(* leaves p in c and c marked occupied, and changes no other piece's        *)
(* location and not the completion classification.                          *)
C6_PlaceIdempotent ==
    [][(Placed(lastOp') /\ lastOp'.previousParent = lastOp'.slot) =>
          /\ kids' = kids
          /\ kids'[lastOp'.slot] = <<lastOp'.piece>>
          /\ lastOp'.slot \in filled'
          /\ filled' = filled
          /\ CompletionBranch(Doc') = CompletionBranch(Doc)]_vars

\* A piece was dropped on the cell it was in, with another piece in Holding.
C6_Witness ==
    /\ Placed(lastOp)
    /\ lastOp.previousParent = lastOp.slot
    /\ lastOp.occupyingPiece = lastOp.piece
    /\ kids[Tray] # <<>>

----------------------------------------------------------------------------
(* C7: a drop, on a slot or on the tray, whose drag id names no piece of    *)
(* the model changes nothing: no piece location, cell occupant, holding     *)
(* order, marker or status, and the target cell keeps its occupant.         *)
C7_UnknownIdNoOp ==
    [][Rejected(lastOp') =>
          UNCHANGED <<pieceId, slotId, correctSlot, placedSlot, kids, filled,
                      status, boardSize, puzzleState>>]_vars

\* An unknown id was dropped on a slot while every slot held a piece.
C7_Witness ==
    /\ pc = "ready"
    /\ lastOp.kind = "dropOnSlot"
    /\ Rejected(lastOp)
    /\ \A slot \in Slots : kids[slot] # <<>>

----------------------------------------------------------------------------
(* C8: a drop rejected because its drag id names no piece returns a value   *)
(* that differs from the value a successful drop returns.                   *)
C8_RejectionSignalled ==
    Rejected(lastOp) =>
        \A slot \in Slots, dragId \in DragIds :
            FindPiece(Doc, dragId) # NoElement =>
                /\ lastOp.ret # handleDropOnSlot(Doc, puzzleState, slot, dragId).ret
                /\ lastOp.ret # handleDropOnTray(Doc, puzzleState, dragId).ret

----------------------------------------------------------------------------
(* C9: for every image of positive integer width and height,                *)
(* computeBoardSize returns an integer N with 2 <= N <= 7.                  *)
C9_BoardSizeInRange ==
    (pc = "sized" /\ sourceImage[1] > 0 /\ sourceImage[2] > 0) =>
        /\ boardSize \in Int
        /\ 2 <= boardSize /\ boardSize <= 7

\* An image big enough for the upper bound to act, sized.
C9_Witness ==
    /\ pc = "sized"
    /\ sourceImage = <<1500, 1000>>
    /\ boardSize = 7

----------------------------------------------------------------------------
(* C10: computeBoardSize is clamp(round(1.15 * sqrt(W*H / 35000)), 2, 7)    *)
(* with a rounded 0 replaced by 2: an area whose boosted side rounds to 0   *)
(* or 1 gives 2, one whose boosted side rounds above 7 gives 7, and every   *)
(* area in between gives the rounded side itself.                           *)

\* n is the nearest integer to 1.15 * sqrt(area / 35000), halves rounded up:
\* n - 1/2 <= 1.15 * sqrt(area / 35000) < n + 1/2, squared and cleared of
\* fractions (1.15^2 = 529/400).
RoundsTo(area, n) ==
    /\ n = 0 \/ 529 * area >= 3500000 * (2 * n - 1) * (2 * n - 1)
    /\ 529 * area < 3500000 * (2 * n + 1) * (2 * n + 1)

\* C10: the board size is 2 when the boosted side rounds to 0 or 1, 7 when it
\* rounds above 7, and the rounded side otherwise.
C10_SizeIsClampedRoundedSide ==
    pc = "sized" =>
        LET area == sourceImage[1] * sourceImage[2] IN
        /\ \E n \in 0..MaxRound : RoundsTo(area, n)
        /\ \A n \in 0..MaxRound :
              RoundsTo(area, n) =>
                  boardSize = IF n <= 1 THEN 2 ELSE IF n > 7 THEN 7 ELSE n

\* The 100 x 100 image: its boosted side rounds to 1 and the board is 2 x 2.
C10_Witness ==
    /\ pc = "sized"
    /\ sourceImage = <<100, 100>>
    /\ RoundsTo(100 * 100, 1)
    /\ boardSize = 2

----------------------------------------------------------------------------
(* C11: for every board size N from 2 to 7, the construction creates exactly
   N*N pieces and N*N cells, the piece ids and the cell ids are each 1..N*N
   in order, the k-th piece's correctSlot is the k-th cell's id, and the
   k-th piece shows the slice of row (k-1) \div N, column (k-1) % N. *)

\* The construction has run up to the shuffle.
Built == pc = "line57"

C11_PiecesAndCellsBuilt ==
    Built =>
        LET N == boardSize IN
        /\ N \in MIN_BOARD_SIZE..MAX_BOARD_SIZE
        /\ Len(pieceId) = N * N
        /\ Len(slotId) = N * N
        /\ \A k \in 1..(N * N) :
              /\ pieceId[k] = k
              /\ slotId[k] = k
              /\ correctSlot[k] = slotId[k]
              /\ texture[k] = <<(k - 1) \div N, (k - 1) % N>>
        /\ Doc = [BuiltDoc(N, status) EXCEPT !.checks = checks]

\* A 7 x 7 puzzle has been built: 49 pieces, the last one the bottom right
\* corner of the scene.
C11_Witness ==
    /\ Built
    /\ boardSize = MAX_BOARD_SIZE
    /\ Len(pieceId) = 49
    /\ texture[49] = <<6, 6>>

----------------------------------------------------------------------------
(* C12: when the initialization has completed, all N*N pieces are in
   Holding and all N*N cells are unoccupied, so the initial state is
   classified InProgress. *)

C12_InitialStateInProgress ==
    lastOp.kind = "imageLoaded" =>
        /\ pc = "ready"
        /\ Cardinality(Pieces) = boardSize * boardSize
        /\ Cardinality(Slots) = boardSize * boardSize
        /\ InHolding(Doc) = Pieces
        /\ Len(kids[Tray]) = boardSize * boardSize
        /\ \A slot \in Slots : kids[slot] = <<>> /\ slot \notin filled
        /\ InProgress /\ ~Solved /\ ~FilledIncorrect
        /\ CompletionBranch(Doc) = "none"

\* The load has completed, and the shuffle that ends it left the four
\* pieces of the tray in another order than they were created in.
C12_Witness ==
    /\ lastOp.kind = "imageLoaded"
    /\ Len(kids[Tray]) = 4
    /\ kids[Tray] # <<1, 2, 3, 4>>

----------------------------------------------------------------------------
(* C13: while the image load is pending and after it has failed, no
   puzzleState is installed, the board has no slot and the tray no piece,
   and a drop on a slot, a drop on the tray, a shuffle and a completion
   check each leave the document as it is. *)

\* Two documents that differ at most in the count of completion checks
SameDocument(d, e) == [d EXCEPT !.checks = 0] = [e EXCEPT !.checks = 0]

C13_NoModelWithoutImage ==
    pc \in {"loading", "failed"} =>
        /\ puzzleState = "null"
        /\ pieceId = <<>> /\ slotId = <<>> /\ correctSlot = <<>>
        /\ DOMAIN kids = {Tray} /\ kids[Tray] = <<>>
        /\ \A dragId \in 0..(MIN_BOARD_SIZE * MIN_BOARD_SIZE) :
              /\ SameDocument(handleDropOnTray(Doc, puzzleState, dragId).doc, Doc)
              /\ \A slot \in 1..(MIN_BOARD_SIZE * MIN_BOARD_SIZE) :
                    SameDocument(
                        handleDropOnSlot(Doc, puzzleState, slot, dragId).doc, Doc)
        /\ SameDocument(shufflePieces(Doc, puzzleState, <<>>), Doc)
        /\ SameDocument(checkCompletion(Doc, puzzleState), Doc)

\* The load has failed.
C13_Witness ==
    /\ pc = "failed"
    /\ lastOp.kind = "imageFailed"
    /\ puzzleState = "null"
    /\ kids[Tray] = <<>>

----------------------------------------------------------------------------
(* C14: while the image load is pending the status text shown is the
   loading message, and after the load has failed it is the load-failure
   message. *)

C14_LoadMessagesShown ==
    /\ lastOp.kind = "initPuzzle" => status = "Loading image.png..."
    /\ lastOp.kind = "imageFailed" =>
          status = "Unable to load image.png. Please ensure the file is present."

----------------------------------------------------------------------------
(* C15, as the specification states it: every drop that places a piece,
   every drop that returns a piece to the tray and every shuffle is
   followed, before its entry point returns, by one evaluation of the
   completion state. *)

C15_EvaluatedAfterEveryMutation ==
    (Placed(lastOp) \/ Returned(lastOp) \/ lastOp.kind = "shuffle") =>
        checks = 1

(* C15, amended: every drop that places a piece and every drop that returns
   a piece to the tray runs checkCompletion exactly once before the handler
   returns; a shuffle, the one that ends initPuzzle included, runs it not at
   all, and a rejected drop neither. The state a shuffle leaves is
   InProgress, for which checkCompletion writes nothing. *)

C15_EvaluatedAfterEveryMove ==
    /\ (Placed(lastOp) \/ Returned(lastOp)) => checks = 1
    /\ lastOp.kind \in {"shuffle", "imageLoaded"} =>
          checks = 0 /\ CompletionBranch(Doc) = "none"
    /\ Rejected(lastOp) => checks = 0

\* A piece has been returned from a cell to the tray and the completion
\* state has been evaluated once.
C15_Witness ==
    /\ Returned(lastOp)
    /\ IsPuzzleSlot(lastOp.previousParent)
    /\ lastOp.piece \in InHolding(Doc)
    /\ checks = 1

----------------------------------------------------------------------------
(* C16: once a further run of initPuzzle has installed its model, a piece
   id captured from the earlier model, by a drag that started before the
   replacement, is rejected by the drop handlers and moves no piece of the
   new model. *)

C16_StaleIdRejected ==
    [][(/\ lastOp'.kind \in {"dropOnSlot", "dropOnTray"}
        /\ dragGeneration # generation)
          => (Rejected(lastOp') /\ kids' = kids)]_vars

----------------------------------------------------------------------------
(* C17, as the specification states it: when the decoded image has a width
   or a height of 0, the initialization is aborted: no puzzleState is
   installed and no slot or piece is created. *)

ZeroDimension == sourceImage[1] = 0 \/ sourceImage[2] = 0

C17_ZeroDimensionAborts ==
    ZeroDimension =>
        /\ puzzleState = "null"
        /\ slotId = <<>>
        /\ pieceId = <<>>

(* C17, amended: when the decoded image has a width or a height of 0,
   computeBoardSize returns MIN_BOARD_SIZE and the initialization goes on:
   a 2 x 2 board and four pieces are built and puzzleState is installed. *)

C17_ZeroDimensionBuildsMinimum ==
    ZeroDimension =>
        /\ pc # "line27" => boardSize = MIN_BOARD_SIZE
        /\ pc \in {"line54", "line57"} => puzzleState = "installed"
        /\ pc \in {"line35", "line54", "line57"} =>
              /\ Len(slotId) = MIN_BOARD_SIZE * MIN_BOARD_SIZE
              /\ Len(pieceId) = MIN_BOARD_SIZE * MIN_BOARD_SIZE
              /\ Len(kids[Tray]) = MIN_BOARD_SIZE * MIN_BOARD_SIZE
        /\ Built => correctSlot = <<1, 2, 3, 4>>

\* A puzzle has been built from an image of width 0.
C17_Witness ==
    /\ Built
    /\ sourceImage[1] = 0
    /\ sourceImage[2] > 0
    /\ puzzleState = "installed"
    /\ boardSize = MIN_BOARD_SIZE
    /\ Len(pieceId) = 4

----------------------------------------------------------------------------
(* C18: within a drop on an occupied cell the occupant is moved to Holding
   before the dragged piece is attached to the cell, so that after every
   statement of the handler, not only at its return, no cell holds two
   pieces and every piece is in Holding or in exactly one cell. *)

\* The steps of the drop of the piece with index piece on slot, from the
\* current state
StepsOfDrop(slot, piece) ==
    handleDropOnSlotSteps(Entry, puzzleState, slot, pieceId[piece])

\* In the document d every piece is at one place and no cell holds two.
WellPlaced(d) ==
    /\ \A slot \in SlotsOf(d) : Len(d.kids[slot]) <= 1
    /\ \A piece \in PiecesOf(d) :
          \/ /\ piece \in InHolding(d)
             /\ \A slot \in SlotsOf(d) : d.kids[slot] # <<piece>>
          \/ /\ piece \notin InHolding(d)
             /\ Cardinality({slot \in SlotsOf(d) : d.kids[slot] = <<piece>>}) = 1
    /\ Len(d.kids[Tray]) = Cardinality(InHolding(d))

C18_EvictionBeforeAttachment ==
    pc = "ready" =>
        \A slot \in Slots, piece \in Pieces :
            LET occupyingPiece == QuerySelectorPiece(Doc, slot) IN
            occupyingPiece \notin {NoElement, piece} =>
                \A steps \in {StepsOfDrop(slot, piece)} :
                    /\ \A i \in DOMAIN steps :
                          /\ WellPlaced(steps[i])
                          /\ piece \in SeqToSet(steps[i].kids[slot])
                                => occupyingPiece \in InHolding(steps[i])
                    /\ steps[Len(steps)]
                          = handleDropOnSlot(Entry, puzzleState, slot,
                                             pieceId[piece]).doc

\* A drop on an occupied cell can happen here, and in the middle of it the
\* occupant is already in Holding while the dragged piece is still where it
\* came from, another cell.
C18_Witness ==
    /\ pc = "ready"
    /\ \E slot \in Slots, piece \in Pieces :
          LET steps == StepsOfDrop(slot, piece)
              occupyingPiece == QuerySelectorPiece(Doc, slot)
          IN  /\ occupyingPiece \notin {NoElement, piece}
              /\ IsPuzzleSlot(ParentOf(Doc, piece))
              /\ \E i \in DOMAIN steps :
                    /\ ParentOf(steps[i], occupyingPiece) = Tray
                    /\ ParentOf(steps[i], piece) = ParentOf(Doc, piece)
                    /\ steps[i].kids[slot] = <<>>

----------------------------------------------------------------------------
(* C19: a drop that places piece p on cell c changes the location of p and
   of the piece that occupied c and of no other piece; a drop that returns p
   to the tray changes the location of p only. The cell p came from, when it
   is another cell than c, is empty afterwards: the evicted occupant goes to
   Holding, never into p's former cell. *)

C19_MoveFrame ==
    [][LET p == lastOp'.piece
           c == lastOp'.slot
           occupant == lastOp'.occupyingPiece
           from == lastOp'.previousParent
       IN  /\ Placed(lastOp') =>
                 /\ \A q \in Pieces \ {p, occupant} :
                       ParentOf(Doc', q) = ParentOf(Doc, q)
                 /\ ParentOf(Doc', p) = c
                 /\ occupant \notin {NoElement, p} =>
                       ParentOf(Doc', occupant) = Tray
                 /\ (IsPuzzleSlot(from) /\ from # c) => kids'[from] = <<>>
           /\ Returned(lastOp') =>
                 /\ \A q \in Pieces \ {p} :
                       ParentOf(Doc', q) = ParentOf(Doc, q)
                 /\ ParentOf(Doc', p) = Tray
                 /\ IsPuzzleSlot(from) => kids'[from] = <<>>
      ]_vars

\* Piece p came from a cell and evicted an occupant while a third piece sat
\* in yet another cell: p's former cell is empty, the occupant in Holding,
\* the third piece still on the board.
C19_Witness ==
    /\ Placed(lastOp)
    /\ lastOp.occupyingPiece \notin {NoElement, lastOp.piece}
    /\ IsPuzzleSlot(lastOp.previousParent)
    /\ lastOp.previousParent # lastOp.slot
    /\ kids[lastOp.previousParent] = <<>>
    /\ ParentOf(Doc, lastOp.occupyingPiece) = Tray
    /\ \E q \in Pieces \ {lastOp.piece, lastOp.occupyingPiece} :
          IsPuzzleSlot(ParentOf(Doc, q))

----------------------------------------------------------------------------
(* C20: on the loaded puzzle no drop on a slot, drop on the tray or shuffle,
   with the completion checks they make, changes the board size, the number
   of pieces or slots, a piece id, a slot id or a piece's correctSlot; and a
   completion check leaves every piece where it is. *)

\* A completion check in the current state changes at most the status text.
CheckMovesNothing ==
    \A checked \in {checkCompletion(Doc, puzzleState)} :
        [checked EXCEPT !.status = status, !.checks = checks] = Doc

C20_StructureUnchanged ==
    /\ [](pc = "ready" => CheckMovesNothing)
    /\ [][pc = "ready" =>
             /\ UNCHANGED <<boardSize, pieceId, slotId, correctSlot, texture>>
             /\ DOMAIN kids' = DOMAIN kids
         ]_vars

\* The puzzle has been solved by a drop, the completion check has said so,
\* and the ids are those the construction gave.
C20_Witness ==
    /\ Placed(lastOp)
    /\ status = "Puzzle completed! Great work!"
    /\ boardSize = 2
    /\ pieceId = <<1, 2, 3, 4>>
    /\ slotId = <<1, 2, 3, 4>>
    /\ correctSlot = <<1, 2, 3, 4>>
    /\ \A piece \in Pieces : kids[piece] = <<piece>>

----------------------------------------------------------------------------
(* C21: in every reachable state of the loaded puzzle a piece's placedSlot
   is the id of cell c exactly when cell c contains the piece, and a piece
   in Holding records no cell: its placedSlot is empty or was never set. *)

C21_PlacedSlotLockStep ==
    pc = "ready" =>
        \A piece \in Pieces :
            /\ \A slot \in Slots :
                  (placedSlot[piece] = slotId[slot])
                      <=> (piece \in SeqToSet(kids[slot]))
            /\ piece \in InHolding(Doc) =>
                  placedSlot[piece] \in {EmptyString, Unset}

\* After a drop with eviction: the dragged piece records the cell, the
\* evicted piece records none, and some piece has never left the tray.
C21_Witness ==
    /\ Placed(lastOp)
    /\ lastOp.occupyingPiece \notin {NoElement, lastOp.piece}
    /\ placedSlot[lastOp.piece] = slotId[lastOp.slot]
    /\ placedSlot[lastOp.occupyingPiece] = EmptyString
    /\ lastOp.occupyingPiece \in InHolding(Doc)
    /\ \E piece \in Pieces : placedSlot[piece] = Unset

----------------------------------------------------------------------------
(* C22: the shuffle orders the tray by a Fisher-Yates pass over all pieces:
   whatever the draws, the result is a permutation of all pieces; every
   permutation is the result of some draws; and no two sequences of draws
   give the same permutation. *)

\* The array the shuffle starts from, [...puzzleState.pieces] of line 399
AllPieces == [k \in 1..Len(pieceId) |-> k]

\* The orders of all pieces
PieceOrders ==
    {order \in [1..Len(pieceId) -> Pieces] :
        \A a, b \in 1..Len(pieceId) : order[a] = order[b] => a = b}

\* What the Fisher-Yates loop makes of the draws rnd
ShuffledBy(rnd) == FisherYates(AllPieces, rnd, Len(AllPieces) - 1)

C22_FisherYatesUniform ==
    lastOp.kind \in {"shuffle", "imageLoaded"} =>
        \A results \in {{ShuffledBy(rnd) : rnd \in RandomDraws(Len(pieceId))}} :
            /\ kids[Tray] \in results
            /\ results = PieceOrders
            /\ Cardinality(results) = Cardinality(RandomDraws(Len(pieceId)))
            /\ \A rnd1, rnd2 \in RandomDraws(Len(pieceId)) :
                  ShuffledBy(rnd1) = ShuffledBy(rnd2) => rnd1 = rnd2

\* A shuffle has left the four pieces in the reverse of the order they were
\* created in.
C22_Witness ==
    /\ lastOp.kind = "shuffle"
    /\ kids[Tray] = <<4, 3, 2, 1>>
    /\ \E rnd \in RandomDraws(4) : ShuffledBy(rnd) = <<4, 3, 2, 1>>

----------------------------------------------------------------------------
(* C23: a drop on the tray of a piece that is already in the tray leaves
   the order of the pieces in the tray as it was. *)

C23_ReturnKeepsTrayOrder ==
    [][(Returned(lastOp') /\ lastOp'.previousParent = Tray)
          => kids'[Tray] = kids[Tray]]_vars

----------------------------------------------------------------------------
(* C24: right after every drop that placed or returned a piece the status
   text is the completed message exactly when the board is Solved, the
   swap message exactly when it is FilledIncorrect, and the plain placed or
   returned message exactly when it is InProgress; and in no state of the
   loaded puzzle is the completed message shown while the board is not
   Solved. *)

C24_StatusShowsClassification ==
    /\ (Placed(lastOp) \/ Returned(lastOp)) =>
          /\ (status = "Puzzle completed! Great work!") <=> Solved
          /\ (status = "So close! Some pieces need to be swapped.")
                <=> FilledIncorrect
          /\ (status = IF Placed(lastOp) THEN "Piece placed on the board."
                                         ELSE "Piece returned to the tray.")
                <=> InProgress
    /\ (pc = "ready" /\ status = "Puzzle completed! Great work!") => Solved

\* The drop that filled the last cell left two pieces exchanged, and the
\* status says so.
C24_Witness ==
    /\ Placed(lastOp)
    /\ lastOp.occupyingPiece = NoElement
    /\ FilledIncorrect
    /\ status = "So close! Some pieces need to be swapped."

----------------------------------------------------------------------------
(* C25: in every reachable state of the loaded puzzle a cell carries the
   'filled' class exactly when it contains a piece: the class goes from the
   cell a piece leaves, stays on a cell whose occupant is replaced, and is
   off every cell after a shuffle. *)

C25_FilledIffOccupied ==
    pc = "ready" =>
        /\ \A slot \in Slots : (slot \in filled) <=> (kids[slot] # <<>>)
        /\ filled \subseteq Slots
        /\ lastOp.kind \in {"shuffle", "imageLoaded"} => filled = {}

\* A piece moved from one cell to an occupied one: the cell it left has
\* lost the class, the cell it took has it, as has a third, untouched cell.
C25_Witness ==
    /\ Placed(lastOp)
    /\ lastOp.occupyingPiece \notin {NoElement, lastOp.piece}
    /\ IsPuzzleSlot(lastOp.previousParent)
    /\ lastOp.previousParent \notin filled
    /\ lastOp.slot \in filled
    /\ Cardinality(filled) = 2

----------------------------------------------------------------------------
(* C26: the puzzle can always be finished: from every reachable state of
   the loaded puzzle the N*N drops that put the pieces 1, 2, ... one after
   the other on their correct slots end in a board the completion check
   classifies as solved. *)

\* The slot whose id is the correctSlot of piece
CorrectSlotOf(d, piece) ==
    CHOOSE slot \in SlotsOf(d) : d.slotId[slot] = d.correctSlot[piece]

\* The document after the drops of the pieces piece, piece + 1, ... on
\* their correct slots
RECURSIVE SolveFrom(_, _)
SolveFrom(d, piece) ==
    IF piece > Len(d.pieceId) THEN d
    ELSE SolveFrom(handleDropOnSlot(d, "installed", CorrectSlotOf(d, piece),
                                    d.pieceId[piece]).doc,
                   piece + 1)

C26_AlwaysSolvable ==
    pc = "ready" =>
        \A solved \in {SolveFrom(Doc, 1)} :
            /\ CompletionBranch(solved) = "completed"
            /\ solved.status = "Puzzle completed! Great work!"
            /\ \A piece \in Pieces :
                  solved.kids[CorrectSlotOf(solved, piece)] = <<piece>>

\* A full board on which every piece is in a wrong cell: all four drops are
\* needed, each evicts, and they end in the solved board.
C26_Witness ==
    /\ pc = "ready"
    /\ EveryCellOccupied
    /\ \A piece \in Pieces : Misplaced(piece)
    /\ CompletionBranch(SolveFrom(Doc, 1)) = "completed"

====
